---- MODULE Spec2Model ----
(***************************************************************************)
(* Realtime collaboration session of zermind:                              *)
(* src/src/hooks/use-realtime-collaboration.ts (useRealtimeCollaboration). *)
(*                                                                         *)
(* One hook instance per client.  React state variables hold the value     *)
(* after every queued update (updates of one hook are applied in the order *)
(* they were queued, so an updater always sees the result of the updates   *)
(* queued before it); `rendered` is the snapshot the last committed render *)
(* saw, which is what effect dependency lists and closures read.  Refs     *)
(* change only inside effects, that is inside Mount/Commit/Unmount.        *)
(* `out` lists what the last step did to the outside world (callbacks      *)
(* invoked, exceptions raised, transport calls), in program order.         *)
(***************************************************************************)
EXTENDS Integers, Sequences, FiniteSets, TLC

\* ---------------------------------------------------------------- bounds
MaxSessions == 2
MaxTime == 1
MaxNet == 2
MaxPending == 1

\* ------------------------------------------------------------- constants
Clients == {"u1", "u2"}
UserName == [u1 |-> "Ann", u2 |-> "Bob"]
Chats == {"c1", "c2"}
Callbacks == {"f1", "f2"}

USER_COLORS ==
  <<"#3B82F6", "#EF4444", "#10B981", "#F59E0B",
    "#8B5CF6", "#EC4899", "#06B6D4", "#84CC16">>

EVENT_ACTION_TYPE == "mind_map_action"
EVENT_USER_JOIN_TYPE == "user_join"
EVENT_USER_LEAVE_TYPE == "user_leave"
Events == {EVENT_ACTION_TYPE, EVENT_USER_JOIN_TYPE, EVENT_USER_LEAVE_TYPE}

Statuses == {"SUBSCRIBED", "CHANNEL_ERROR", "TIMED_OUT", "CLOSED"}

\* JavaScript's undefined (a missing field read through a cast)
Undefined == "undefined"
\* a null channel / no channel-effect instance
NullChannel == 0
NullTimeout == [st |-> "null"]
\* a timer handle whose callback has run
FiredTimeout == [st |-> "fired"]

VARIABLES
  mounted,             \* client -> the hook instance is mounted
  props,               \* client -> [chatId, onAction, onPresenceChange] given by the caller
  rendered,            \* client -> values seen by the last committed render
  isConnected,         \* useState, line 68
  collaborativeUsers,  \* useState, line 69 (an array: a sequence)
  userColor,           \* useState, line 72
  shouldAnnounceJoin,  \* useState, line 73
  channel,             \* useState, line 76 (index into chans[c], or NullChannel)
  onActionRef,         \* useRef, line 79
  onPresenceChangeRef, \* useRef, line 80
  userColorRef,        \* useRef, line 83
  isConnectedRef,      \* useRef, line 84
  announceTimeoutRef,  \* useRef, line 85: the timer it points to
  announceCleanup,     \* the join-announcement effect's last run returned its cleanup
  effChannel,          \* newChannel captured by the live channel effect, or NullChannel
  pendingAcks,         \* join sends awaiting channel.send's promise (line 125)
  chans,               \* client -> sequence of channels created by supabase.channel
  net,                 \* broadcasts in flight: [to, topic, event, payload]
  now,                 \* Date.now()
  out,                 \* what the last step did, in program order
  db,                  \* the persisted chat row and its collaboration session
  page                 \* visitor -> the CollaborationPage request the visitor has open

hookVars ==
  <<mounted, props, rendered, isConnected, collaborativeUsers, userColor,
    shouldAnnounceJoin, channel, onActionRef, onPresenceChangeRef, userColorRef,
    isConnectedRef, announceTimeoutRef, announceCleanup, effChannel, pendingAcks,
    chans, net, now, out>>

pageVars == <<db, page>>

vars == <<hookVars, pageVars>>

\* ------------------------------------------------------- pure operators
Range(s) == {s[i] : i \in DOMAIN s}

\* a field read on a payload cast to MindMapAction (lines 208, 221, 247)
Field(p, f) == IF f \in DOMAIN p THEN p[f] ELSE Undefined

\* a null payload: any property read on it throws a TypeError
NullPayload == [isNull |-> TRUE]
IsNull(p) == "isNull" \in DOMAIN p

\* new Date(t).toISOString() (line 230): a string built from the millisecond value;
\* new Date(undefined) is an Invalid Date and toISOString throws a RangeError on it
ValidTime(p) == "timestamp" \in DOMAIN p
ToISOString(t) == [iso |-> t]

\* mutant: the palette is not filtered by the colors in use
AvailableColorsUnfiltered(currentUsers) == USER_COLORS

\* USER_COLORS.filter(color => !currentUsers.some(user => user.color === color)), line 267
AvailableColors(currentUsers) ==
  SelectSeq(USER_COLORS, LAMBDA color : \A i \in DOMAIN currentUsers : currentUsers[i].color # color)

\* availableColors[0] || USER_COLORS[Math.floor(Math.random() * USER_COLORS.length)], line 270:
\* the set of colors the expression can evaluate to
AssignedColors(currentUsers) ==
  IF AvailableColors(currentUsers) # << >>
    THEN {Head(AvailableColors(currentUsers))}
    ELSE Range(USER_COLORS)

\* current.filter(u => u.id !== action.userId), lines 234 and 252
FilterOut(current, id) == SelectSeq(current, LAMBDA u : u.id # id)

\* mutant: the new entry is appended without filtering the old one out
UpsertUserNoFilter(current, p) ==
  Append(current,
         [id |-> Field(p, "userId"), name |-> Field(p, "userName"),
          color |-> Field(p, "userColor"), online_at |-> ToISOString(p.timestamp)])

\* mutant: a user the registry already holds is left as it is
UpsertUserKeepOld(current, p) ==
  IF \E i \in DOMAIN current : current[i].id = Field(p, "userId")
    THEN current
    ELSE UpsertUserNoFilter(current, p)

\* [...filtered, newUser], lines 226-235
UpsertUser(current, p) ==
  Append(FilterOut(current, Field(p, "userId")),
         [id |-> Field(p, "userId"), name |-> Field(p, "userName"),
          color |-> Field(p, "userColor"), online_at |-> ToISOString(p.timestamp)])

\* a payload that has every field the MindMapAction interface requires, lines 18-34
RequiredFields == {"type", "userId", "userName", "userColor", "timestamp"}
IsWellFormed(p) == RequiredFields \subseteq DOMAIN p

\* `chat-collaboration:${chatId}`, line 203
RoomName(chatId) == <<"chat-collaboration:", chatId>>

\* ------------------------------------------------------------ transport
\* supabase.channel(roomName) followed by the three .on(...) and .subscribe(...), lines 204-293
NewChannel(chatId) ==
  [topic |-> RoomName(chatId), st |-> "joining", removed |-> FALSE, live |-> TRUE]

\* the statuses the transport may report to the subscribe callback (line 260) of a channel
\* in transport state st, and the transport state that follows; "" where it reports nothing
TransportNext(st, status) ==
  CASE st = "joining" /\ status = "SUBSCRIBED" -> "joined"
    [] st = "joining" /\ status \in {"CHANNEL_ERROR", "TIMED_OUT"} -> "errored"
    [] st = "joined" /\ status = "CHANNEL_ERROR" -> "errored"
    [] st = "joined" /\ status = "CLOSED" -> "closed"
    [] st = "errored" /\ status = "SUBSCRIBED" -> "joined"
    [] st = "leaving" /\ status = "CLOSED" -> "closed"
    [] OTHER -> ""

\* mutant: the channel is left open
RemoveChannelKeep(ch) == ch

\* supabase.removeChannel(newChannel), line 350: the channel unsubscribes
RemoveChannel(ch) ==
  [ch EXCEPT !.removed = TRUE,
             !.st = IF ch.st \in {"joining", "joined", "errored"} THEN "leaving" ELSE ch.st]

\* the channels a broadcast of client c on `topic` is fanned out to: every channel of
\* another client joined on it (the channel is created without broadcast.self, line 204)
Recipients(c, topic) ==
  UNION {{<<d, k>> : k \in {j \in DOMAIN chans[d] :
                                 chans[d][j].topic = topic /\ chans[d][j].st = "joined"}} :
         d \in Clients \ {c}}

\* channel.send({type: "broadcast", event, payload}), lines 125, 163, 327, 339;
\* the transport is best effort: a broadcast beyond its capacity is dropped
NetAdd(c, k, event, payload) ==
  LET m == [to |-> Recipients(c, chans[c][k].topic), event |-> event, payload |-> payload]
  IN IF m.to # {} /\ Cardinality(net \cup {m}) <= MaxNet THEN net \cup {m} ELSE net

SendOp(c, k, event, payload) ==
  [op |-> "send", c |-> c, chan |-> k, event |-> event, payload |-> payload,
   removed |-> chans[c][k].removed]

\* ------------------------------------------------------ receive handlers
\* the mind_map_action handler, lines 207-214: what it does to the outside
ActionHandler(c, p) ==
  IF IsNull(p) THEN <<[op |-> "throw", err |-> "TypeError"]>>
  ELSE IF Field(p, "userId") = c THEN << >>
  ELSE <<[op |-> "onAction", cb |-> onActionRef[c], arg |-> p]>>

\* mutant: the user_join handler without its self check (line 223)
JoinHandlerNoSelfCheck(c, p, current) ==
  IF IsNull(p) THEN [users |-> current, out |-> <<[op |-> "throw", err |-> "TypeError"]>>]
  ELSE IF ~ValidTime(p)
    THEN [users |-> current, out |-> <<[op |-> "throw", err |-> "RangeError"]>>]
  ELSE [users |-> UpsertUser(current, p),
        out |-> <<[op |-> "onPresenceChange", cb |-> onPresenceChangeRef[c],
                   arg |-> UpsertUser(current, p)]>>]

\* the user_join handler, lines 217-240: the participant list and what it does to the outside
JoinHandler(c, p, current) ==
  IF IsNull(p) THEN [users |-> current, out |-> <<[op |-> "throw", err |-> "TypeError"]>>]
  ELSE IF Field(p, "userId") = c THEN [users |-> current, out |-> << >>]
  ELSE IF ~ValidTime(p)
    THEN [users |-> current, out |-> <<[op |-> "throw", err |-> "RangeError"]>>]
  ELSE [users |-> UpsertUser(current, p),
        out |-> <<[op |-> "onPresenceChange", cb |-> onPresenceChangeRef[c],
                   arg |-> UpsertUser(current, p)]>>]

\* mutant: the user_leave handler removing by index, current.splice(findIndex(...), 1),
\* which removes the last entry when the user is not found
LeaveHandlerSplice(c, p, current) ==
  LET updated ==
        IF \E i \in DOMAIN current : current[i].id = Field(p, "userId")
          THEN FilterOut(current, Field(p, "userId"))
          ELSE SubSeq(current, 1, Len(current) - 1)
  IN IF IsNull(p) THEN [users |-> current, out |-> <<[op |-> "throw", err |-> "TypeError"]>>]
     ELSE IF Field(p, "userId") = c THEN [users |-> current, out |-> << >>]
     ELSE [users |-> updated,
           out |-> <<[op |-> "onPresenceChange", cb |-> onPresenceChangeRef[c],
                      arg |-> updated]>>]

\* mutant: the user_leave handler notifies but keeps the entry
LeaveHandlerKeep(c, p, current) ==
  IF IsNull(p) THEN [users |-> current, out |-> <<[op |-> "throw", err |-> "TypeError"]>>]
  ELSE IF Field(p, "userId") = c THEN [users |-> current, out |-> << >>]
  ELSE [users |-> current,
        out |-> <<[op |-> "onPresenceChange", cb |-> onPresenceChangeRef[c],
                   arg |-> current]>>]

\* the user_leave handler, lines 243-257
LeaveHandler(c, p, current) ==
  IF IsNull(p) THEN [users |-> current, out |-> <<[op |-> "throw", err |-> "TypeError"]>>]
  ELSE IF Field(p, "userId") = c THEN [users |-> current, out |-> << >>]
  ELSE [users |-> FilterOut(current, Field(p, "userId")),
        out |-> <<[op |-> "onPresenceChange", cb |-> onPresenceChangeRef[c],
                   arg |-> FilterOut(current, Field(p, "userId"))]>>]

\* the entries the registry holds for the payload's userId when the payload arrives
Prior(current, p) == SelectSeq(current, LAMBDA u : u.id = Field(p, "userId"))

\* dispatch of one inbound broadcast to the handler registered for its event
\* mutant: a mind_map_action also enters its sender in the participant list
HandleActionUpserts(c, event, p, current) ==
  CASE event = EVENT_ACTION_TYPE ->
         [users |-> IF IsNull(p) \/ Field(p, "userId") = c \/ ~ValidTime(p) THEN current
                    ELSE UpsertUser(current, p),
          out |-> ActionHandler(c, p)]
    [] event = EVENT_USER_JOIN_TYPE -> JoinHandler(c, p, current)
    [] event = EVENT_USER_LEAVE_TYPE -> LeaveHandler(c, p, current)

Handle(c, event, p, current) ==
  CASE event = EVENT_ACTION_TYPE -> [users |-> current, out |-> ActionHandler(c, p)]
    [] event = EVENT_USER_JOIN_TYPE -> JoinHandler(c, p, current)
    [] event = EVENT_USER_LEAVE_TYPE -> LeaveHandler(c, p, current)

\* client c has a channel that receives broadcasts
Listening(c) ==
  /\ effChannel[c] # NullChannel
  /\ chans[c][effChannel[c]].st = "joined"

\* ----------------------------------------------------------------- Init
InitialProps == [chatId |-> "", onAction |-> "f1", onPresenceChange |-> "f1"]

\* the values a render of client c sees: its props and its state
RenderValues(c) ==
  [chatId |-> props[c].chatId, onAction |-> props[c].onAction,
   onPresenceChange |-> props[c].onPresenceChange,
   isConnected |-> isConnected[c], userColor |-> userColor[c],
   shouldAnnounceJoin |-> shouldAnnounceJoin[c], channel |-> channel[c]]

\* the first render of a hook instance: the useState/useRef initial values, lines 68-85
InitialRender(chatId) ==
  [chatId |-> chatId, onAction |-> "f1", onPresenceChange |-> "f1",
   isConnected |-> FALSE, userColor |-> USER_COLORS[1],
   shouldAnnounceJoin |-> FALSE, channel |-> NullChannel]

\* the chat row (select id, user_id, title, is_collaborative; page.tsx lines 43-47) of
\* the one chat the page is asked for, and whether a collaboration session is active
InitialDb ==
  [exists |-> TRUE, user_id |-> "u1", is_collaborative |-> FALSE,
   session |-> FALSE, participants |-> {}]

\* a CollaborationPage request that has not started, with the locals of lines 32-39
IdleRequest ==
  [pc |-> "idle", authed |-> FALSE, chatFound |-> FALSE, isOwner |-> FALSE,
   isCollaborative |-> FALSE, access |-> "none", userRole |-> "viewer",
   hasData |-> FALSE, thrown |-> "", outcome |-> ""]

Init ==
  /\ mounted = [c \in Clients |-> FALSE]
  /\ props = [c \in Clients |-> InitialProps]
  /\ rendered = [c \in Clients |-> InitialRender("")]
  /\ isConnected = [c \in Clients |-> FALSE]
  /\ collaborativeUsers = [c \in Clients |-> << >>]
  /\ userColor = [c \in Clients |-> USER_COLORS[1]]
  /\ shouldAnnounceJoin = [c \in Clients |-> FALSE]
  /\ channel = [c \in Clients |-> NullChannel]
  /\ onActionRef = [c \in Clients |-> "f1"]
  /\ onPresenceChangeRef = [c \in Clients |-> "f1"]
  /\ userColorRef = [c \in Clients |-> USER_COLORS[1]]
  /\ isConnectedRef = [c \in Clients |-> FALSE]
  /\ announceTimeoutRef = [c \in Clients |-> NullTimeout]
  /\ announceCleanup = [c \in Clients |-> FALSE]
  /\ effChannel = [c \in Clients |-> NullChannel]
  /\ pendingAcks = [c \in Clients |-> 0]
  /\ chans = [c \in Clients |-> << >>]
  /\ net = {}
  /\ now = 0
  /\ out = << >>
  /\ db = InitialDb
  /\ page = [u \in Clients |-> IdleRequest]

\* ------------------------------------------------- channel effect pieces
\* the leave announcement of the channel effect's cleanup, lines 305-348: the transport
\* calls it makes, given how navigator.sendBeacon behaves ("ok", "throws", "unavailable")
LeaveAction(c) ==
  [type |-> "user_leave", userId |-> c, userName |-> UserName[c],
   userColor |-> userColorRef[c], timestamp |-> now]

\* mutant: the channel send follows the beacon also when the beacon was accepted
LeaveOpsBothPaths(c, k, beacon) ==
  IF ~isConnectedRef[c] THEN << >>
  ELSE IF beacon = "ok"
    THEN <<[op |-> "sendBeacon", c |-> c, chatId |-> chans[c][k].topic[2],
            action |-> LeaveAction(c)],
           SendOp(c, k, EVENT_USER_LEAVE_TYPE, LeaveAction(c))>>
  ELSE IF beacon = "throws"
    THEN <<[op |-> "sendBeaconThrew", c |-> c, chatId |-> chans[c][k].topic[2],
            action |-> LeaveAction(c)],
           SendOp(c, k, EVENT_USER_LEAVE_TYPE, LeaveAction(c))>>
  ELSE <<SendOp(c, k, EVENT_USER_LEAVE_TYPE, LeaveAction(c))>>

\* mutant: the leave is announced whatever isConnectedRef holds
LeaveOpsAlways(c, k, beacon) ==
  IF beacon = "throws"
    THEN <<[op |-> "sendBeaconThrew", c |-> c, chatId |-> chans[c][k].topic[2],
            action |-> LeaveAction(c)],
           SendOp(c, k, EVENT_USER_LEAVE_TYPE, LeaveAction(c))>>
  ELSE IF beacon = "unavailable"
    THEN <<SendOp(c, k, EVENT_USER_LEAVE_TYPE, LeaveAction(c))>>
  ELSE <<[op |-> "sendBeacon", c |-> c, chatId |-> chans[c][k].topic[2],
          action |-> LeaveAction(c)]>>

LeaveOps(c, k, beacon) ==
  IF ~isConnectedRef[c] THEN << >>
  ELSE IF beacon = "ok"
    THEN <<[op |-> "sendBeacon", c |-> c, chatId |-> chans[c][k].topic[2],
            action |-> LeaveAction(c)]>>
  ELSE IF beacon = "throws"
    THEN <<[op |-> "sendBeaconThrew", c |-> c, chatId |-> chans[c][k].topic[2],
            action |-> LeaveAction(c)],
           SendOp(c, k, EVENT_USER_LEAVE_TYPE, LeaveAction(c))>>
  ELSE <<SendOp(c, k, EVENT_USER_LEAVE_TYPE, LeaveAction(c))>>

\* POST /api/collaboration/beacon with {chatId, action} (the request of line 322): the
\* endpoint hands the action to the chat's channel as a user_leave broadcast
BeaconRelay(c, k, action) == NetAdd(c, k, EVENT_USER_LEAVE_TYPE, action)

\* the broadcasts in flight after the cleanup's leave announcement
LeaveNet(c, k, beacon) ==
  IF ~isConnectedRef[c] THEN net
  ELSE IF beacon = "ok" THEN BeaconRelay(c, k, LeaveAction(c))
  ELSE NetAdd(c, k, EVENT_USER_LEAVE_TYPE, LeaveAction(c))

\* mutant: the timer is left running
ClearAnnounceTimeoutKeep(ref) == ref

\* if (announceTimeoutRef.current) { clearTimeout(...); announceTimeoutRef.current = null },
\* lines 137-140 and 300-303: the ref afterwards, and the call made
ClearAnnounceTimeout(ref) == NullTimeout

ClearOps(c, ref) ==
  IF ref = NullTimeout THEN << >>
  ELSE <<[op |-> "clearTimeout", c |-> c, pending |-> ref.st = "pending"]>>

\* mutant: the channel is removed before the leave is announced
CleanupOpsRemoveFirst(c, k, beacon, ref) ==
  ClearOps(c, ref) \o <<[op |-> "removeChannel", c |-> c, chan |-> k]>>
    \o LeaveOps(c, k, beacon)

\* the whole cleanup of the channel effect, lines 298-355, as the calls it makes
CleanupOps(c, k, beacon, ref) ==
  ClearOps(c, ref) \o LeaveOps(c, k, beacon)
    \o <<[op |-> "removeChannel", c |-> c, chan |-> k]>>

\* how navigator.sendBeacon behaved in a cleanup, where the cleanup got to use it
BeaconUsed(c, run, beacon) == IF run /\ isConnectedRef[c] THEN beacon ELSE "unused"

BeaconOutcomes == {"ok", "throws", "unavailable"}

\* mutant: subscribe is called before the receive handlers are registered
OpenOpsSubscribeFirst(c, k) ==
  <<[op |-> "channel", c |-> c, chan |-> k],
    [op |-> "subscribe", c |-> c, chan |-> k],
    [op |-> "on", c |-> c, chan |-> k, event |-> EVENT_ACTION_TYPE],
    [op |-> "on", c |-> c, chan |-> k, event |-> EVENT_USER_JOIN_TYPE],
    [op |-> "on", c |-> c, chan |-> k, event |-> EVENT_USER_LEAVE_TYPE]>>

\* the body of the channel effect as the calls it makes on the transport, lines 204-293:
\* supabase.channel, the three newChannel.on, newChannel.subscribe; no await in between
OpenOps(c, k) ==
  <<[op |-> "channel", c |-> c, chan |-> k],
    [op |-> "on", c |-> c, chan |-> k, event |-> EVENT_ACTION_TYPE],
    [op |-> "on", c |-> c, chan |-> k, event |-> EVENT_USER_JOIN_TYPE],
    [op |-> "on", c |-> c, chan |-> k, event |-> EVENT_USER_LEAVE_TYPE],
    [op |-> "subscribe", c |-> c, chan |-> k]>>

\* -------------------------------------------------------------- actions
\* The component mounts with a chat id: first render, then every effect body runs
\* (lines 88-103 set the refs, 106-107 returns early, 200-295 opens the channel).
Mount(c, chat) ==
  /\ UNCHANGED pageVars
  /\ ~mounted[c]
  /\ Len(chans[c]) < MaxSessions
  /\ mounted' = [mounted EXCEPT ![c] = TRUE]
  /\ props' = [props EXCEPT ![c] = [InitialProps EXCEPT !.chatId = chat]]
  /\ rendered' = [rendered EXCEPT ![c] = InitialRender(chat)]
  /\ isConnected' = [isConnected EXCEPT ![c] = FALSE]
  /\ collaborativeUsers' = [collaborativeUsers EXCEPT ![c] = << >>]
  /\ userColor' = [userColor EXCEPT ![c] = USER_COLORS[1]]
  /\ shouldAnnounceJoin' = [shouldAnnounceJoin EXCEPT ![c] = FALSE]
  /\ onActionRef' = [onActionRef EXCEPT ![c] = "f1"]
  /\ onPresenceChangeRef' = [onPresenceChangeRef EXCEPT ![c] = "f1"]
  /\ userColorRef' = [userColorRef EXCEPT ![c] = USER_COLORS[1]]
  /\ isConnectedRef' = [isConnectedRef EXCEPT ![c] = FALSE]
  /\ announceTimeoutRef' = [announceTimeoutRef EXCEPT ![c] = NullTimeout]
  /\ announceCleanup' = [announceCleanup EXCEPT ![c] = FALSE]
  /\ pendingAcks' = [pendingAcks EXCEPT ![c] = 0]
  /\ chans' = [chans EXCEPT ![c] = Append(@, NewChannel(chat))]
  /\ channel' = [channel EXCEPT ![c] = Len(chans[c]) + 1]
  /\ effChannel' = [effChannel EXCEPT ![c] = Len(chans[c]) + 1]
  /\ out' = <<[op |-> "Mount", c |-> c]>> \o OpenOps(c, Len(chans[c]) + 1)
  /\ UNCHANGED <<net, now>>

\* The caller re-renders the component with another chat id.
ChangeChat(c, chat) ==
  /\ UNCHANGED pageVars
  /\ mounted[c]
  /\ chat # props[c].chatId
  /\ Len(chans[c]) < MaxSessions
  /\ props' = [props EXCEPT ![c].chatId = chat]
  /\ out' = <<[op |-> "ChangeChat", c |-> c]>>
  /\ UNCHANGED <<mounted, rendered, isConnected, collaborativeUsers, userColor,
                 shouldAnnounceJoin, channel, onActionRef, onPresenceChangeRef,
                 userColorRef, isConnectedRef, announceTimeoutRef, announceCleanup,
                 effChannel, pendingAcks, chans, net, now>>

\* The caller re-renders the component with new onAction / onPresenceChange functions.
ReplaceCallbacks(c) ==
  /\ UNCHANGED pageVars
  /\ mounted[c]
  /\ props[c].onAction = "f1"
  /\ props' = [props EXCEPT ![c].onAction = "f2", ![c].onPresenceChange = "f2"]
  /\ out' = <<[op |-> "ReplaceCallbacks", c |-> c]>>
  /\ UNCHANGED <<mounted, rendered, isConnected, collaborativeUsers, userColor,
                 shouldAnnounceJoin, channel, onActionRef, onPresenceChangeRef,
                 userColorRef, isConnectedRef, announceTimeoutRef, announceCleanup,
                 effChannel, pendingAcks, chans, net, now>>

\* a render is pending: the props or the state differ from what was last rendered
Dirty(c) == RenderValues(c) # rendered[c]

\* the dependency list of the join-announcement effect, line 142 (userId, userName fixed)
AnnounceDeps(r) == <<r.shouldAnnounceJoin, r.channel, r.isConnected, r.userColor>>

\* mutant: the guard without its isConnected test
AnnounceGuardNoConnected(r) ==
  r.shouldAnnounceJoin /\ r.channel # NullChannel /\ r.userColor # ""

\* the guard of the join-announcement effect, line 107 (negated)
AnnounceGuard(r) ==
  r.shouldAnnounceJoin /\ r.channel # NullChannel /\ r.isConnected /\ r.userColor # ""

\* mutant: the channel effect also depends on the callbacks
ChannelDepsWithCallbacks(r) == <<r.chatId, r.onAction, r.onPresenceChange>>

\* mutant: the channel effect also re-runs when the connection state changes
ChannelDepsWithConnected(r) == <<r.chatId, r.isConnected>>

\* the dependency list of the channel effect, line 356 (supabase, userId, userName fixed)
ChannelDeps(r) == <<r.chatId>>

\* A re-render commits: cleanups of the effects whose dependencies changed run first,
\* in declaration order, then the bodies of those effects, in declaration order.
Commit(c, beacon) ==
  /\ UNCHANGED pageVars
  /\ mounted[c]
  /\ Dirty(c)
  /\ LET r == rendered[c]
         n == RenderValues(c)
         d5 == AnnounceDeps(r) # AnnounceDeps(n)
         d6 == ChannelDeps(r) # ChannelDeps(n)
         run5c == d5 /\ announceCleanup[c]
         run6c == d6 /\ effChannel[c] # NullChannel
         k == effChannel[c]
         knew == Len(chans[c]) + 1
         t1 == IF run5c THEN ClearAnnounceTimeout(announceTimeoutRef[c])
                        ELSE announceTimeoutRef[c]
         t2 == IF run6c THEN ClearAnnounceTimeout(t1) ELSE t1
         arm == d5 /\ AnnounceGuard(n)
     IN
       /\ rendered' = [rendered EXCEPT ![c] = n]
       \* cleanup of the channel effect, lines 298-355
       /\ net' = IF run6c THEN LeaveNet(c, k, beacon) ELSE net
       /\ isConnected' = [isConnected EXCEPT ![c] = IF run6c THEN FALSE ELSE @]
       /\ collaborativeUsers' = [collaborativeUsers EXCEPT ![c] = IF run6c THEN << >> ELSE @]
       /\ shouldAnnounceJoin' = [shouldAnnounceJoin EXCEPT ![c] = IF run6c THEN FALSE ELSE @]
       \* bodies: lines 88-103
       /\ onActionRef' = [onActionRef EXCEPT ![c] = n.onAction]
       /\ onPresenceChangeRef' = [onPresenceChangeRef EXCEPT ![c] = n.onPresenceChange]
       /\ userColorRef' = [userColorRef EXCEPT ![c] = n.userColor]
       /\ isConnectedRef' = [isConnectedRef EXCEPT ![c] = n.isConnected]
       \* body of the join-announcement effect, lines 106-135
       /\ announceTimeoutRef' = [announceTimeoutRef EXCEPT ![c] =
            IF arm THEN [st |-> "pending", channel |-> n.channel, userColor |-> n.userColor]
                   ELSE t2]
       /\ announceCleanup' = [announceCleanup EXCEPT ![c] = IF d5 THEN arm ELSE @]
       \* body of the channel effect, lines 200-295
       /\ chans' = [chans EXCEPT ![c] =
            LET removed == IF run6c THEN [@ EXCEPT ![k] = RemoveChannel(@)] ELSE @
            IN IF d6 THEN Append(removed, NewChannel(n.chatId)) ELSE removed]
       /\ channel' = [channel EXCEPT ![c] = IF d6 THEN knew ELSE @]
       /\ effChannel' = [effChannel EXCEPT ![c] = IF d6 THEN knew ELSE @]
       /\ out' = <<[op |-> "Commit", c |-> c, beacon |-> BeaconUsed(c, run6c, beacon)]>>
            \o (IF run5c THEN ClearOps(c, announceTimeoutRef[c]) ELSE << >>)
            \o (IF run6c THEN CleanupOps(c, k, beacon, t1) ELSE << >>)
            \o (IF arm THEN ClearOps(c, t2) \o <<[op |-> "setTimeout", c |-> c]>> ELSE << >>)
            \o (IF d6 THEN OpenOps(c, knew) ELSE << >>)
  /\ UNCHANGED <<mounted, props, userColor, pendingAcks, now>>

\* The component unmounts: every registered cleanup runs, in declaration order; the
\* state setters it calls do nothing on an unmounted component.
Unmount(c, beacon) ==
  /\ UNCHANGED pageVars
  /\ mounted[c]
  /\ LET k == effChannel[c]
     IN
       /\ mounted' = [mounted EXCEPT ![c] = FALSE]
       /\ announceTimeoutRef' = [announceTimeoutRef EXCEPT ![c] =
            ClearAnnounceTimeout(IF announceCleanup[c] THEN ClearAnnounceTimeout(@) ELSE @)]
       /\ announceCleanup' = [announceCleanup EXCEPT ![c] = FALSE]
       /\ net' = LeaveNet(c, k, beacon)
       /\ chans' = [chans EXCEPT ![c] =
            [i \in DOMAIN @ |-> [(IF i = k THEN RemoveChannel(@[i]) ELSE @[i])
                                   EXCEPT !.live = FALSE]]]
       /\ effChannel' = [effChannel EXCEPT ![c] = NullChannel]
       /\ pendingAcks' = [pendingAcks EXCEPT ![c] = 0]
       /\ out' = <<[op |-> "Unmount", c |-> c, beacon |-> BeaconUsed(c, TRUE, beacon)]>>
            \o (IF announceCleanup[c] THEN ClearOps(c, announceTimeoutRef[c]) ELSE << >>)
            \o CleanupOps(c, k, beacon,
                          IF announceCleanup[c] THEN ClearAnnounceTimeout(announceTimeoutRef[c])
                                                ELSE announceTimeoutRef[c])
  \* the instance is gone: its state reads as before the first mount; what closures
  \* created by its last render can still reach (the channel, the refs) stays
  /\ props' = [props EXCEPT ![c] = InitialProps]
  /\ rendered' = [rendered EXCEPT ![c] = [InitialRender("") EXCEPT !.channel = rendered[c].channel]]
  /\ isConnected' = [isConnected EXCEPT ![c] = FALSE]
  /\ collaborativeUsers' = [collaborativeUsers EXCEPT ![c] = << >>]
  /\ userColor' = [userColor EXCEPT ![c] = USER_COLORS[1]]
  /\ shouldAnnounceJoin' = [shouldAnnounceJoin EXCEPT ![c] = FALSE]
  /\ channel' = [channel EXCEPT ![c] = NullChannel]
  /\ onActionRef' = [onActionRef EXCEPT ![c] = "f1"]
  /\ onPresenceChangeRef' = [onPresenceChangeRef EXCEPT ![c] = "f1"]
  /\ UNCHANGED <<userColorRef, isConnectedRef, now>>

\* The transport reports a status to the subscribe callback of channel k, lines 260-293.
\* A callback of an unmounted instance sets state on nothing.
StatusCallback(c, k, status) ==
  /\ UNCHANGED pageVars
  /\ k \in DOMAIN chans[c]
  /\ TransportNext(chans[c][k].st, status) # ""
  /\ chans' = [chans EXCEPT ![c][k].st = TransportNext(@, status)]
  /\ IF ~chans[c][k].live
       THEN UNCHANGED <<isConnected, userColor, shouldAnnounceJoin>>
       ELSE IF status = "SUBSCRIBED"
         THEN /\ isConnected' = [isConnected EXCEPT ![c] = TRUE]
              /\ \E color \in AssignedColors(collaborativeUsers[c]) :
                   userColor' = [userColor EXCEPT ![c] = color]
              /\ shouldAnnounceJoin' = [shouldAnnounceJoin EXCEPT ![c] = TRUE]
         ELSE /\ isConnected' = [isConnected EXCEPT ![c] = FALSE]
              /\ UNCHANGED <<userColor, shouldAnnounceJoin>>
  /\ out' = <<[op |-> "StatusCallback", c |-> c, chan |-> k, status |-> status]>>
  /\ UNCHANGED <<mounted, props, rendered, collaborativeUsers, channel, onActionRef,
                 onPresenceChangeRef, userColorRef, isConnectedRef, announceTimeoutRef,
                 announceCleanup, effChannel, pendingAcks, net, now>>

\* One inbound broadcast is dispatched to client c's handler for its event, lines 207-257.
Receive(c, event, p) ==
  /\ UNCHANGED pageVars
  /\ Listening(c)
  /\ collaborativeUsers' =
       [collaborativeUsers EXCEPT ![c] = Handle(c, event, p, collaborativeUsers[c]).users]
  /\ out' = <<[op |-> "Receive", c |-> c, event |-> event, payload |-> p,
                prior |-> Prior(collaborativeUsers[c], p)]>>
            \o Handle(c, event, p, collaborativeUsers[c]).out
  /\ UNCHANGED <<mounted, props, rendered, isConnected, userColor, shouldAnnounceJoin,
                 channel, onActionRef, onPresenceChangeRef, userColorRef, isConnectedRef,
                 announceTimeoutRef, announceCleanup, effChannel, pendingAcks, chans, now>>

\* The transport delivers a broadcast in flight to one of the channels it was fanned out
\* to; delivery is at least once, so the broadcast may stay in flight (keep).
Deliver(m, d, keep) ==
  /\ m \in net
  /\ d \in m.to
  /\ effChannel[d[1]] = d[2]
  /\ Receive(d[1], m.event, m.payload)
  /\ net' = IF keep THEN net
            ELSE IF m.to = {d} THEN net \ {m}
            ELSE (net \ {m}) \cup {[m EXCEPT !.to = @ \ {d}]}

\* The transport loses a broadcast in flight.
Drop(m) ==
  /\ UNCHANGED pageVars
  /\ m \in net
  /\ net' = net \ {m}
  /\ out' = <<[op |-> "Drop"]>>
  /\ UNCHANGED <<mounted, props, rendered, isConnected, collaborativeUsers, userColor,
                 shouldAnnounceJoin, channel, onActionRef, onPresenceChangeRef,
                 userColorRef, isConnectedRef, announceTimeoutRef, announceCleanup,
                 effChannel, pendingAcks, chans, now>>

\* The join-announcement timer of client c fires, lines 115-129: the envelope is built
\* from the values the effect's render saw and handed to channel.send.  A timer set by a
\* commit runs after the re-render that commit scheduled.
TimerFire(c) ==
  /\ UNCHANGED pageVars
  /\ announceTimeoutRef[c].st = "pending"
  /\ mounted[c] => ~Dirty(c)
  /\ pendingAcks[c] < MaxPending
  /\ LET t == announceTimeoutRef[c]
         joinAction == [type |-> "user_join", userId |-> c, userName |-> UserName[c],
                        userColor |-> t.userColor, timestamp |-> now]
     IN /\ net' = NetAdd(c, t.channel, EVENT_USER_JOIN_TYPE, joinAction)
        /\ out' = <<[op |-> "TimerFire", c |-> c],
                    SendOp(c, t.channel, EVENT_USER_JOIN_TYPE, joinAction)>>
        /\ announceTimeoutRef' = [announceTimeoutRef EXCEPT ![c] = FiredTimeout]
  /\ pendingAcks' = [pendingAcks EXCEPT ![c] = @ + 1]
  /\ UNCHANGED <<mounted, props, rendered, isConnected, collaborativeUsers, userColor,
                 shouldAnnounceJoin, channel, onActionRef, onPresenceChangeRef,
                 userColorRef, isConnectedRef, announceCleanup, effChannel, chans, now>>

\* mutant: the catch block clears the flag as well
FlagAfterJoinSendCleared(flag, ok) == FALSE

\* shouldAnnounceJoin after `await channel.send(...)`, lines 124-133: line 130 runs only
\* if the promise resolved, the catch block only logs
FlagAfterJoinSend(flag, ok) == IF ok THEN FALSE ELSE flag

\* The promise of a join send settles, lines 125-133: resolved, the announcement flag is
\* cleared; rejected, the failure is logged.
JoinSendDone(c, ok) ==
  /\ UNCHANGED pageVars
  /\ pendingAcks[c] > 0
  /\ pendingAcks' = [pendingAcks EXCEPT ![c] = @ - 1]
  /\ shouldAnnounceJoin' = [shouldAnnounceJoin EXCEPT ![c] = FlagAfterJoinSend(@, ok)]
  /\ out' = <<[op |-> "JoinSendDone", c |-> c, ok |-> ok]>>
  /\ UNCHANGED <<mounted, props, rendered, isConnected, collaborativeUsers, userColor,
                 channel, onActionRef, onPresenceChangeRef, userColorRef, isConnectedRef,
                 announceTimeoutRef, announceCleanup, effChannel, chans, net, now>>

\* what the caller can pass to broadcastAction through updateCursorPosition(120, 80),
\* lines 176-184
CursorMove == [type |-> "cursor_move", position |-> [x |-> 120, y |-> 80]]

\* mutant: the envelope carries no colour, as the caller's partial action has none
FullActionNoColor(c, action) ==
  [type |-> action.type, position |-> action.position, userId |-> c,
   userName |-> UserName[c], userColor |-> "", timestamp |-> now]

\* the envelope broadcastAction builds, lines 154-160
FullAction(c, action) ==
  [type |-> action.type, position |-> action.position, userId |-> c,
   userName |-> UserName[c], userColor |-> userColorRef[c], timestamp |-> now]

\* mutant: broadcastAction tests the channel only
BroadcastDropsNoChannelOnly(c) == rendered[c].channel = NullChannel

\* if (!channel || !isConnectedRef.current) return, line 152: `channel` is the value the
\* render that created the callback saw
BroadcastDrops(c) == rendered[c].channel = NullChannel \/ ~isConnectedRef[c]

\* The caller invokes the broadcastAction returned by the last render, lines 145-173.
BroadcastAction(c, action) ==
  /\ UNCHANGED pageVars
  /\ mounted[c]
  /\ IF BroadcastDrops(c)
       THEN /\ net' = net
            /\ out' = <<[op |-> "BroadcastAction", c |-> c]>>
       ELSE /\ net' = NetAdd(c, rendered[c].channel, EVENT_ACTION_TYPE, FullAction(c, action))
            /\ out' = <<[op |-> "BroadcastAction", c |-> c],
                        SendOp(c, rendered[c].channel, EVENT_ACTION_TYPE,
                               FullAction(c, action))>>
  /\ UNCHANGED <<mounted, props, rendered, isConnected, collaborativeUsers, userColor,
                 shouldAnnounceJoin, channel, onActionRef, onPresenceChangeRef,
                 userColorRef, isConnectedRef, announceTimeoutRef, announceCleanup,
                 effChannel, pendingAcks, chans, now>>

\* The promise of the action or leave send that client c's last step handed to the
\* transport rejects: the catch blocks at lines 168-170, 332-334 and 344-346 log it.
SendFailed(c) ==
  /\ UNCHANGED pageVars
  /\ \E i \in DOMAIN out :
       /\ out[i].op = "send" /\ out[i].c = c
       /\ out[i].event \in {EVENT_ACTION_TYPE, EVENT_USER_LEAVE_TYPE}
  /\ LET i == CHOOSE j \in DOMAIN out : out[j].op = "send" /\ out[j].c = c
     IN out' = <<[op |-> "SendFailed", c |-> c, event |-> out[i].event],
                 [op |-> "warn", c |-> c]>>
  /\ UNCHANGED <<mounted, props, rendered, isConnected, collaborativeUsers, userColor,
                 shouldAnnounceJoin, channel, onActionRef, onPresenceChangeRef,
                 userColorRef, isConnectedRef, announceTimeoutRef, announceCleanup,
                 effChannel, pendingAcks, chans, net, now>>

\* Time passes.
Tick ==
  /\ UNCHANGED pageVars
  /\ now < MaxTime
  /\ now' = now + 1
  /\ out' = <<[op |-> "Tick"]>>
  /\ UNCHANGED <<mounted, props, rendered, isConnected, collaborativeUsers, userColor,
                 shouldAnnounceJoin, channel, onActionRef, onPresenceChangeRef,
                 userColorRef, isConnectedRef, announceTimeoutRef, announceCleanup,
                 effChannel, pendingAcks, chans, net>>

\* ------------------------------------------------------ the environment
\* Broadcasts of peers that are not modelled as hook instances: well-formed envelopes of
\* two remote users, an echo of the receiver's own id, and payloads lacking fields.
Envelope(event, id, name, color, t) ==
  IF event = EVENT_ACTION_TYPE
    THEN [type |-> "cursor_move", position |-> [x |-> 120, y |-> 80], userId |-> id,
          userName |-> name, userColor |-> color, timestamp |-> t]
    ELSE [type |-> event, userId |-> id, userName |-> name, userColor |-> color,
          timestamp |-> t]

WellFormedPayloads(c, event) ==
  {Envelope(event, "u2", "Bob", USER_COLORS[1], t) : t \in 0..now}
    \cup {Envelope(event, "u2", "Bobby", USER_COLORS[3], t) : t \in 0..now}
    \cup {Envelope(event, "u3", "Cy", USER_COLORS[1], 0)}
    \cup {Envelope(event, c, UserName[c], USER_COLORS[1], now)}

MalformedPayloads(event) ==
  {NullPayload,
   [type |-> event, userName |-> "Bob", userColor |-> USER_COLORS[1], timestamp |-> 0],
   [type |-> event, userId |-> "u2", userName |-> "Bob", userColor |-> USER_COLORS[1]]}

\* A peer's broadcast reaches client c.
Inject(c, event, p) ==
  /\ Receive(c, event, p)
  /\ net' = net

\* Broadcasts of one remote peer and an echo of the receiver's own id.
PeerPayloads(c, event) ==
  {Envelope(event, "u2", "Bob", USER_COLORS[1], now),
   Envelope(event, c, UserName[c], USER_COLORS[1], now)}

\* ------------------------------------------------------ collaboration page
\* src/src/app/collaborate/[chatId]/page.tsx (CollaborationPage), one step per await
LoginUrl == "/auth/login"
ChatNotFoundUrl == "/protected?error=chat-not-found"
AccessDeniedUrl == "/protected?error=access-denied"
CollaborationErrorUrl == "/protected?error=collaboration-error"
RedirectUrls == {LoginUrl, ChatNotFoundUrl, AccessDeniedUrl, CollaborationErrorUrl}
RenderedChat == "DualModeChat"

\* redirect(url) outside the try block, lines 29 and 116: the request ends there
Redirect(r, url) == [r EXCEPT !.pc = "done", !.thrown = url, !.outcome = url]

\* redirect(url) or a rejected await inside the try block, lines 41-113: redirect raises
\* its navigation error, the catch at line 110 takes whatever was raised and redirects
\* to the collaboration-error page
RedirectInTry(r, url) ==
  [r EXCEPT !.pc = "done", !.thrown = url, !.outcome = CollaborationErrorUrl]

\* mutant: everybody is taken for the owner
IsOwnerAlways(user_id, u) == TRUE

\* chat.user_id === userData.user.id, line 55
IsOwner(user_id, u) == user_id = u

\* createOrJoinWithAccessControl(chatId, userId, isOwner, isCollaborative), called at
\* lines 63-68: the owner is let in and opens a session if none is active; anybody else
\* is let in only to an active session of a collaborative chat and opens none
CreateOrJoinWithAccessControl(d, u, isOwner, isCollaborative) ==
  IF isOwner
    THEN [success |-> TRUE,
          db |-> [d EXCEPT !.session = TRUE, !.participants = @ \cup {u}]]
  ELSE IF isCollaborative /\ d.session
    THEN [success |-> TRUE, db |-> [d EXCEPT !.participants = @ \cup {u}]]
  ELSE [success |-> FALSE, db |-> d]

\* mutant: the result of the access check is not looked at
AccessDeniedNever(result) == FALSE

\* !accessResult.success, line 70
AccessDenied(result) == ~result.success

\* the role of lines 75-87: the participant's role in the active session, else owner
\* for the owner, else the initial "viewer"
UserRole(d, u, isOwner) ==
  IF d.session /\ u \in d.participants
    THEN (IF u = d.user_id THEN "owner" ELSE "collaborator")
  ELSE IF isOwner THEN "owner" ELSE "viewer"

\* supabase.auth.getUser() answers, lines 27-30
PageAuth(u, ok) ==
  /\ page[u].pc = "idle"
  /\ page' = [page EXCEPT ![u] =
                IF ok THEN [IdleRequest EXCEPT !.pc = "chat", !.authed = TRUE]
                ELSE Redirect(IdleRequest, LoginUrl)]
  /\ UNCHANGED <<hookVars, db>>

\* the chat row arrives, lines 43-56
PageChat(u, chatError) ==
  /\ page[u].pc = "chat"
  /\ page' = [page EXCEPT ![u] =
                IF chatError \/ ~db.exists THEN RedirectInTry(@, ChatNotFoundUrl)
                ELSE [@ EXCEPT !.pc = "gate", !.chatFound = TRUE,
                               !.isOwner = IsOwner(db.user_id, u),
                               !.isCollaborative = db.is_collaborative]]
  /\ UNCHANGED <<hookVars, db>>

\* the access check answers, lines 63-72
PageGate(u, rejects) ==
  /\ page[u].pc = "gate"
  /\ LET r == page[u]
         result == CreateOrJoinWithAccessControl(db, u, r.isOwner, r.isCollaborative)
     IN IF rejects
          THEN /\ page' = [page EXCEPT ![u] =
                             RedirectInTry([@ EXCEPT !.access = "error"], "Error")]
               /\ db' = db
          ELSE /\ db' = result.db
               /\ page' = [page EXCEPT ![u] =
                             LET answered ==
                                   [@ EXCEPT !.access = IF result.success THEN "granted"
                                                        ELSE "denied"]
                             IN IF AccessDenied(result)
                                  THEN RedirectInTry(answered, AccessDeniedUrl)
                                  ELSE [answered EXCEPT !.pc = "session"]]
  /\ UNCHANGED hookVars

\* getChatCollaborationSession(chatId) answers, lines 75-87
PageSession(u, rejects) ==
  /\ page[u].pc = "session"
  /\ page' = [page EXCEPT ![u] =
                IF rejects THEN RedirectInTry(@, "Error")
                ELSE [@ EXCEPT !.pc = "data",
                               !.userRole = UserRole(db, u, page[u].isOwner)]]
  /\ UNCHANGED <<hookVars, db>>

\* the chat with its messages arrives (lines 91-105), is checked (lines 107-117) and the
\* page is rendered with DualModeChat (lines 134-180)
PageData(u, rejects) ==
  /\ page[u].pc = "data"
  /\ page' = [page EXCEPT ![u] =
                IF rejects THEN RedirectInTry(@, "Error")
                ELSE IF ~db.exists THEN RedirectInTry(@, ChatNotFoundUrl)
                ELSE [@ EXCEPT !.pc = "done", !.hasData = TRUE, !.outcome = RenderedChat]]
  /\ UNCHANGED <<hookVars, db>>

\* the visitor requests the page again
PageAgain(u) ==
  /\ page[u].pc = "done"
  /\ page' = [page EXCEPT ![u] = IdleRequest]
  /\ UNCHANGED <<hookVars, db>>

\* the persistence layer changes under the page: the owner switches collaboration on or
\* off, the session ends, the chat is deleted
DbChange ==
  /\ \/ db' = [db EXCEPT !.is_collaborative = ~@]
     \/ db.session /\ db' = [db EXCEPT !.session = FALSE, !.participants = {}]
     \/ db.exists /\ db' = [db EXCEPT !.exists = FALSE, !.session = FALSE,
                                      !.participants = {}]
  /\ UNCHANGED <<hookVars, page>>

\* ------------------------------------------------------- specifications
\* The session lifecycle of one hook instance: mounts, chat changes, transport
\* statuses, the announcement timer, teardown.
Next ==
  \/ Mount("u1", "c1")
  \/ \E chat \in Chats : ChangeChat("u1", chat)
  \/ \E beacon \in BeaconOutcomes : Commit("u1", beacon)
  \/ \E beacon \in BeaconOutcomes : Unmount("u1", beacon)
  \/ \E k \in 1..MaxSessions, status \in Statuses : StatusCallback("u1", k, status)
  \/ \E event \in Events : \E p \in PeerPayloads("u1", event) : Inject("u1", event, p)
  \/ TimerFire("u1")
  \/ \E ok \in BOOLEAN : JoinSendDone("u1", ok)
  \/ BroadcastAction("u1", CursorMove)
  \/ SendFailed("u1")

Spec == Init /\ [][Next]_vars

\* The presence registry of one hook instance under every kind of inbound payload,
\* with time passing between broadcasts.
NextRegistry ==
  \/ Mount("u1", "c1")
  \/ ReplaceCallbacks("u1")
  \/ \E beacon \in BeaconOutcomes : Commit("u1", beacon)
  \/ \E status \in Statuses : StatusCallback("u1", 1, status)
  \/ \E event \in Events :
       \E p \in WellFormedPayloads("u1", event) \cup MalformedPayloads(event) :
         Inject("u1", event, p)
  \/ Tick

SpecRegistry == Init /\ [][NextRegistry]_vars

\* Two hook instances on the same chat, connected by the transport: what they and
\* the transport do once mounted.
MultiStep ==
  \/ \E c \in Clients, beacon \in BeaconOutcomes : Commit(c, beacon)
  \/ \E c \in Clients, beacon \in BeaconOutcomes : Unmount(c, beacon)
  \/ \E c \in Clients, status \in {"SUBSCRIBED", "CLOSED"} : StatusCallback(c, 1, status)
  \/ \E m \in net : \E d \in m.to, keep \in BOOLEAN : Deliver(m, d, keep)
  \/ \E m \in net : Drop(m)
  \/ \E c \in Clients : TimerFire(c)
  \/ \E c \in Clients, ok \in BOOLEAN : JoinSendDone(c, ok)
  \/ \E c \in Clients : BroadcastAction(c, CursorMove)

\* Both may join at any time, also concurrently.
NextMulti ==
  \/ \E c \in Clients : chans[c] = << >> /\ Mount(c, "c1")
  \/ MultiStep

SpecMulti == Init /\ [][NextMulti]_vars

\* client c is connected and its join announcement has been sent and acknowledged
Announced(c) ==
  /\ mounted[c] /\ isConnected[c] /\ ~Dirty(c)
  /\ ~shouldAnnounceJoin[c] /\ pendingAcks[c] = 0

\* u2 joins the chat only after u1 has announced itself.
NextLateJoin ==
  \/ chans["u1"] = << >> /\ Mount("u1", "c1")
  \/ chans["u2"] = << >> /\ Announced("u1") /\ Mount("u2", "c1")
  \/ MultiStep

SpecLateJoin == Init /\ [][NextLateJoin]_vars

\* The transport delivers a user_leave in flight.
DeliverLeave ==
  \E m \in net : \E d \in m.to :
    m.event = EVENT_USER_LEAVE_TYPE /\ Deliver(m, d, FALSE)

\* u2 closes its tab in a browser that has sendBeacon, while u1 stays subscribed; the
\* transport may duplicate broadcasts and does not lose a user_leave it has accepted.
NextLeave ==
  \/ chans["u1"] = << >> /\ Mount("u1", "c1")
  \/ chans["u2"] = << >> /\ Mount("u2", "c1")
  \/ \E c \in Clients : Commit(c, "ok")
  \/ Unmount("u2", "ok")
  \/ \E c \in Clients : StatusCallback(c, 1, "SUBSCRIBED")
  \/ \E m \in net : \E d \in m.to, keep \in BOOLEAN : Deliver(m, d, keep)
  \/ \E c \in Clients : TimerFire(c)
  \/ \E c \in Clients, ok \in BOOLEAN : JoinSendDone(c, ok)

\* One hook instance through chat changes and transport statuses, where a pending render
\* is eventually committed, a pending timer eventually fires and a send in flight
\* eventually completes; what the caller and the transport do is not forced.
NextAnnounce ==
  \/ Mount("u1", "c1")
  \/ \E chat \in Chats : ChangeChat("u1", chat)
  \/ Commit("u1", "ok")
  \/ \E k \in 1..MaxSessions, status \in {"SUBSCRIBED", "CHANNEL_ERROR"} :
       StatusCallback("u1", k, status)
  \/ TimerFire("u1")
  \/ \E ok \in BOOLEAN : JoinSendDone("u1", ok)

SpecAnnounce ==
  /\ Init /\ [][NextAnnounce]_vars
  /\ WF_vars(Commit("u1", "ok"))
  /\ WF_vars(TimerFire("u1"))
  /\ WF_vars(\E ok \in BOOLEAN : JoinSendDone("u1", ok))

\* One hook instance whose channel errors and rejoins while a peer joins and leaves,
\* under the scheduling of SpecAnnounce; the caller broadcasts and changes chat freely.
NextRejoin ==
  \/ Mount("u1", "c1")
  \/ \E chat \in Chats : ChangeChat("u1", chat)
  \/ Commit("u1", "ok")
  \/ \E k \in 1..MaxSessions, status \in {"SUBSCRIBED", "CHANNEL_ERROR"} :
       StatusCallback("u1", k, status)
  \/ \E event \in {EVENT_USER_JOIN_TYPE, EVENT_USER_LEAVE_TYPE} :
       Inject("u1", event, Envelope(event, "u2", "Bob", USER_COLORS[1], now))
  \/ TimerFire("u1")
  \/ \E ok \in BOOLEAN : JoinSendDone("u1", ok)
  \/ BroadcastAction("u1", CursorMove)

SpecRejoin ==
  /\ Init /\ [][NextRejoin]_vars
  /\ WF_vars(Commit("u1", "ok"))
  /\ WF_vars(TimerFire("u1"))
  /\ WF_vars(\E ok \in BOOLEAN : JoinSendDone("u1", ok))

\* Participants a registry can hold when a status arrives: one per palette color and one
\* whose color is not of the palette (the color of a join is whatever its sender put in).
PeerColors == USER_COLORS \o <<"#000000">>
PeerIds == <<"p1", "p2", "p3", "p4", "p5", "p6", "p7", "p8", "p9">>
PeerUser(i) ==
  [id |-> PeerIds[i], name |-> "Peer", color |-> PeerColors[i], online_at |-> ToISOString(0)]
Registries ==
  {SelectSeq([i \in 1..Len(PeerIds) |-> PeerUser(i)], LAMBDA u : u.id \in S) :
     S \in SUBSET Range(PeerIds)}

\* u1's session after its channel reported an error and the change was rendered, holding
\* any of the registries: the state in which the transport's rejoin reports SUBSCRIBED
\* and the subscribe callback assigns a color against a populated registry.
InitColor ==
  /\ mounted = [u1 |-> TRUE, u2 |-> FALSE]
  /\ props = [u1 |-> [InitialProps EXCEPT !.chatId = "c1"], u2 |-> InitialProps]
  /\ rendered = [u1 |-> [InitialRender("c1") EXCEPT !.channel = 1], u2 |-> InitialRender("")]
  /\ isConnected = [c \in Clients |-> FALSE]
  /\ \E registry \in Registries :
       collaborativeUsers = [u1 |-> registry, u2 |-> << >>]
  /\ userColor = [c \in Clients |-> USER_COLORS[1]]
  /\ shouldAnnounceJoin = [c \in Clients |-> FALSE]
  /\ channel = [u1 |-> 1, u2 |-> NullChannel]
  /\ onActionRef = [c \in Clients |-> "f1"]
  /\ onPresenceChangeRef = [c \in Clients |-> "f1"]
  /\ userColorRef = [c \in Clients |-> USER_COLORS[1]]
  /\ isConnectedRef = [c \in Clients |-> FALSE]
  /\ announceTimeoutRef = [c \in Clients |-> NullTimeout]
  /\ announceCleanup = [c \in Clients |-> FALSE]
  /\ effChannel = [u1 |-> 1, u2 |-> NullChannel]
  /\ pendingAcks = [c \in Clients |-> 0]
  /\ chans = [u1 |-> <<[NewChannel("c1") EXCEPT !.st = "errored"]>>, u2 |-> << >>]
  /\ net = {}
  /\ now = 0
  /\ out = << >>
  /\ db = InitialDb
  /\ page = [u \in Clients |-> IdleRequest]

NextColor ==
  \/ \E status \in Statuses : StatusCallback("u1", 1, status)
  \/ Commit("u1", "ok")
  \/ TimerFire("u1")
  \/ \E ok \in BOOLEAN : JoinSendDone("u1", ok)

SpecColor == InitColor /\ [][NextColor]_vars

\* Requests of the owner u1 and of the non-owner u2 for the collaboration page of the
\* chat, interleaved with each other and with changes of the persisted chat.
NextPage ==
  \/ \E u \in Clients, ok \in BOOLEAN : PageAuth(u, ok)
  \/ \E u \in Clients, chatError \in BOOLEAN : PageChat(u, chatError)
  \/ \E u \in Clients, rejects \in BOOLEAN : PageGate(u, rejects)
  \/ \E u \in Clients, rejects \in BOOLEAN : PageSession(u, rejects)
  \/ \E u \in Clients, rejects \in BOOLEAN : PageData(u, rejects)
  \/ \E u \in Clients : PageAgain(u)
  \/ DbChange

SpecPage == Init /\ [][NextPage]_vars

SpecLeave == Init /\ [][NextLeave]_vars /\ WF_vars(DeliverLeave)

\* ------------------------------------------------------------- claims
Ids(users) == {users[i].id : i \in DOMAIN users}
LastReceive(o) == Len(o) >= 1 /\ o[1].op = "Receive"
Threw(o) == \E i \in DOMAIN o : o[i].op = "throw"
CallbackInvoked(o) == \E i \in DOMAIN o : o[i].op \in {"onAction", "onPresenceChange"}
RemoteEnvelope(o, event) ==
  /\ LastReceive(o)
  /\ o[1].event = event
  /\ IsWellFormed(o[1].payload)
  /\ o[1].payload.userId # o[1].c
SelfEcho(o) ==
  LastReceive(o) /\ ~IsNull(o[1].payload) /\ Field(o[1].payload, "userId") = o[1].c

Connected(c) ==
  /\ mounted[c] /\ isConnected[c]
  /\ effChannel[c] # NullChannel /\ chans[c][effChannel[c]].st = "joined"

\* nothing is in flight and no render, timer or send is pending anywhere
Quiescent ==
  /\ net = {}
  /\ \A c \in Clients :
       /\ mounted[c] => ~Dirty(c)
       /\ pendingAcks[c] = 0
       /\ announceTimeoutRef[c].st # "pending"

TeardownStep(o) ==
  /\ Len(o) >= 1 /\ o[1].op \in {"Commit", "Unmount"}
  /\ \E i \in DOMAIN o : o[i].op = "removeChannel"
BeaconAttempts(o) == {i \in DOMAIN o : o[i].op \in {"sendBeacon", "sendBeaconThrew"}}
ChannelLeaves(o) ==
  {i \in DOMAIN o : o[i].op = "send" /\ o[i].event = EVENT_USER_LEAVE_TYPE}
RemoveAt(o) == CHOOSE i \in DOMAIN o : o[i].op = "removeChannel"

\* C1: users that joined the same chat and were assigned their color on SUBSCRIBED
\* hold pairwise distinct colors (two users, below the palette size).
C1_ColorsPairwiseDistinct ==
  \A a, b \in Clients :
    (a # b /\ Connected(a) /\ Connected(b)) => userColor[a] # userColor[b]

\* C2: u1 announced itself before u2 joined; once both are connected and nothing is
\* pending any more, u2's participant set holds u1 with u1's color.
C2_LateJoinerSeesAnnouncer ==
  (Quiescent /\ Connected("u1") /\ Connected("u2")) =>
    \E i \in DOMAIN collaborativeUsers["u2"] :
      /\ collaborativeUsers["u2"][i].id = "u1"
      /\ collaborativeUsers["u2"][i].color = userColor["u1"]

\* C3: a remote user's user_join (timestamp t0) and later user_leave (t1 > t0), delivered
\* one after the other in either order, leave the receiver's participant set without
\* that user.
C3_OutOfOrderTolerance ==
  [][(/\ LastReceive(out) /\ LastReceive(out')
      /\ out[1].c = out'[1].c
      /\ \/ RemoteEnvelope(out, EVENT_USER_JOIN_TYPE) /\ RemoteEnvelope(out', EVENT_USER_LEAVE_TYPE)
            /\ out[1].payload.timestamp < out'[1].payload.timestamp
         \/ RemoteEnvelope(out, EVENT_USER_LEAVE_TYPE) /\ RemoteEnvelope(out', EVENT_USER_JOIN_TYPE)
            /\ out'[1].payload.timestamp < out[1].payload.timestamp
      /\ out[1].payload.userId = out'[1].payload.userId)
     => out'[1].payload.userId \notin Ids(collaborativeUsers'[out'[1].c])]_vars

\* C4 as stated: a teardown that finds the session connected attempts exactly one
\* user_leave through sendBeacon, before removeChannel.
C4_TeardownOrdering ==
  (TeardownStep(out) /\ out[1].beacon # "unused") =>
    /\ Cardinality(BeaconAttempts(out)) = 1
    /\ \A i \in BeaconAttempts(out) : i < RemoveAt(out)

\* C4 with the fallback path: a teardown that finds isConnectedRef.current true attempts exactly one
\* user_leave through sendBeacon when navigator.sendBeacon exists, and none through it
\* but exactly one through channel.send when it does not; every attempt precedes
\* removeChannel.
C4_TeardownOrderingAmended ==
  (TeardownStep(out) /\ out[1].beacon # "unused") =>
    /\ out[1].beacon \in {"ok", "throws"} => Cardinality(BeaconAttempts(out)) = 1
    /\ out[1].beacon = "unavailable" =>
          BeaconAttempts(out) = {} /\ Cardinality(ChannelLeaves(out)) = 1
    /\ \A i \in BeaconAttempts(out) \cup ChannelLeaves(out) : i < RemoveAt(out)

\* a chat change has just torn down a connected session through sendBeacon
C4_Witness ==
  /\ TeardownStep(out) /\ out[1].op = "Commit" /\ out[1].beacon = "ok"
  /\ BeaconAttempts(out) # {}

C6_SelfEchoSuppressed ==
  /\ [][SelfEcho(out') =>
          /\ ~CallbackInvoked(out')
          /\ collaborativeUsers' = collaborativeUsers]_vars
  /\ [](\A c \in Clients : c \notin Ids(collaborativeUsers[c]))

\* the local user's own user_join came back while the registry held somebody else
C6_Witness ==
  /\ SelfEcho(out)
  /\ out[1].event = EVENT_USER_JOIN_TYPE
  /\ collaborativeUsers[out[1].c] # << >>

\* C7: in every reachable state the participant set holds at most one entry per userId.
C7_OneEntryPerUser ==
  \A c \in Clients :
    \A i, j \in DOMAIN collaborativeUsers[c] :
      collaborativeUsers[c][i].id = collaborativeUsers[c][j].id => i = j

\* a user_join for a user the registry already held has just been applied, next to another user
C7_Witness ==
  /\ RemoteEnvelope(out, EVENT_USER_JOIN_TYPE)
  /\ out[1].prior # << >>
  /\ Len(collaborativeUsers[out[1].c]) >= 2

\* C8: a user_join from a remote userId the registry already holds leaves exactly one
\* entry for that userId, carrying the name, color and timestamp of the envelope applied
\* last, and does not change the size of the participant set.
C8_IdempotentJoin ==
  [][(RemoteEnvelope(out', EVENT_USER_JOIN_TYPE) /\ out'[1].prior # << >>) =>
       LET c == out'[1].c
           p == out'[1].payload
           mine == SelectSeq(collaborativeUsers'[c], LAMBDA u : u.id = p.userId)
       IN /\ Len(collaborativeUsers'[c]) = Len(collaborativeUsers[c])
          /\ mine = <<[id |-> p.userId, name |-> p.userName, color |-> p.userColor,
                       online_at |-> ToISOString(p.timestamp)]>>]_vars

\* the second join carried another timestamp, name and color than the entry it replaced
C8_Witness ==
  /\ RemoteEnvelope(out, EVENT_USER_JOIN_TYPE)
  /\ Len(out[1].prior) = 1
  /\ out[1].prior[1].online_at # ToISOString(out[1].payload.timestamp)
  /\ out[1].prior[1].name # out[1].payload.userName
  /\ out[1].prior[1].color # out[1].payload.userColor

\* C9: a user_leave for a userId the participant set does not hold raises nothing and
\* leaves the participant set as it was.
C9_LeaveTolerance ==
  [][(/\ LastReceive(out')
      /\ out'[1].event = EVENT_USER_LEAVE_TYPE
      /\ ~IsNull(out'[1].payload)
      /\ out'[1].prior = << >>)
     => /\ ~Threw(out')
        /\ collaborativeUsers' = collaborativeUsers]_vars

\* a leave for an absent remote user arrived while the registry held somebody else
C9_Witness ==
  /\ RemoteEnvelope(out, EVENT_USER_LEAVE_TYPE)
  /\ out[1].prior = << >>
  /\ collaborativeUsers[out[1].c] # << >>

\* C10: an inbound payload lacking required fields raises nothing, invokes no callback
\* and adds no participant.
C10_MalformedIsNoOp ==
  /\ (LastReceive(out) /\ ~IsWellFormed(out[1].payload)) =>
       ~Threw(out) /\ ~CallbackInvoked(out)
  /\ \A c \in Clients : Undefined \notin Ids(collaborativeUsers[c])

\* the current channel of client c is in the transport state st
CurrentIs(c, st) == effChannel[c] # NullChannel /\ chans[c][effChannel[c]].st = st

OpenChannels(c) == {k \in DOMAIN chans[c] : ~chans[c][k].removed}
CreateAt(o) == CHOOSE i \in DOMAIN o : o[i].op = "channel"
\* a commit that ended one session and started the next
SessionSwitch(o) ==
  /\ TeardownStep(o) /\ o[1].op = "Commit"
  /\ \E i \in DOMAIN o : o[i].op = "channel"

\* C12: a controller never holds more than one channel that is created and not removed;
\* a commit that switches the session cancels the timer, attempts the leave (if the
\* session was connected), removes the old channel and resets the state before it
\* creates the new channel.
C12_ReentrantGuard ==
  /\ \A c \in Clients : Cardinality(OpenChannels(c)) <= 1
  /\ (Len(out) >= 1 /\ out[1].op = "Commit"
        /\ \E i \in DOMAIN out : out[i].op = "channel") =>
       LET c == out[1].c
       IN /\ TeardownStep(out)
          /\ RemoveAt(out) < CreateAt(out)
          /\ \A i \in DOMAIN out :
               \/ out[i].op \in {"sendBeacon", "sendBeaconThrew", "send"}
               \/ out[i].op = "clearTimeout" /\ out[i].pending
               => i < RemoveAt(out)
          /\ out[1].beacon # "unused" =>
               BeaconAttempts(out) \cup ChannelLeaves(out) # {}
          /\ chans[c][out[RemoveAt(out)].chan].removed
          /\ OpenChannels(c) = {out[CreateAt(out)].chan}
          /\ ~isConnected[c] /\ collaborativeUsers[c] = << >> /\ ~shouldAnnounceJoin[c]

\* the chat id changed while the session was connected and its announcement was pending
C12_Witness ==
  /\ SessionSwitch(out) /\ out[1].beacon # "unused"
  /\ \E i \in DOMAIN out : out[i].op = "clearTimeout" /\ out[i].pending
  /\ Len(chans[out[1].c]) = 2

\* the last step was a status callback of client c's channel k
StatusStep(o) == Len(o) >= 1 /\ o[1].op = "StatusCallback"

\* connected only while the current channel is subscribed
ConnectedOnlyWhileSubscribed ==
  \A c \in Clients : isConnected[c] => CurrentIs(c, "joined")

\* C13: the state is connected only while the current channel is subscribed, only a
\* status callback moves it to connected, and a status callback of a channel that is
\* not the current one changes neither the connection state, the color nor the
\* announcement flag.
C13_StatusDrivenConnection ==
  /\ []ConnectedOnlyWhileSubscribed
  /\ [][\A c \in Clients :
          /\ (~isConnected[c] /\ isConnected'[c]) => (StatusStep(out') /\ out'[1].c = c)
          /\ (StatusStep(out') /\ out'[1].c = c /\ out'[1].chan # effChannel[c]) =>
               /\ isConnected'[c] = isConnected[c]
               /\ userColor'[c] = userColor[c]
               /\ shouldAnnounceJoin'[c] = shouldAnnounceJoin[c]]_vars

\* C14: when the teardown of a session has completed the participant set is empty, the
\* session is not connected, and the local color is cleared: it is empty or back at the
\* initial value of its useState, no longer a color assigned in the ended session.
C14_TeardownResetsState ==
  SessionSwitch(out) =>
    LET c == out[1].c
    IN /\ collaborativeUsers[c] = << >>
       /\ ~isConnected[c]
       /\ userColor[c] \in {"", USER_COLORS[1]}

BroadcastStep(o) == Len(o) >= 1 /\ o[1].op = "BroadcastAction"

JoinSends(o) ==
  {i \in DOMAIN o : o[i].op = "send" /\ o[i].event = EVENT_USER_JOIN_TYPE}

\* C16: a user_join is handed to the transport only by the announcement timer, armed by
\* an earlier commit and still pending, of a session that is connected on its current
\* channel with a color assigned; the envelope carries the locally stored color; a
\* SUBSCRIBED that finds the participant set empty assigns #3B82F6.
C16_JoinAfterConnectedWithColor ==
  [][/\ \A i \in JoinSends(out') :
          LET c == out'[i].c
          IN /\ out'[1].op = "TimerFire"
             /\ announceTimeoutRef[c].st = "pending"
             /\ announceTimeoutRef'[c] = FiredTimeout
             /\ isConnected[c] /\ rendered[c].isConnected /\ shouldAnnounceJoin[c]
             /\ out'[i].chan = effChannel[c] /\ CurrentIs(c, "joined")
             /\ out'[i].payload.userColor = userColor[c]
             /\ out'[i].payload.userColor = userColorRef[c]
             /\ out'[i].payload.userId = c
     /\ \A c \in Clients :
          (/\ StatusStep(out') /\ out'[1].c = c /\ out'[1].status = "SUBSCRIBED"
           /\ chans[c][out'[1].chan].live
           /\ collaborativeUsers[c] = << >>)
          => userColor'[c] = "#3B82F6"]_vars

\* the announcement of a user alone in the chat has just been sent with #3B82F6
C16_Witness ==
  /\ Len(out) >= 2 /\ out[1].op = "TimerFire"
  /\ JoinSends(out) # {}
  /\ out[2].payload.userColor = "#3B82F6"
  /\ collaborativeUsers[out[1].c] = << >>

\* the last step was the failure of a send of client c
SendFailure(o, c) ==
  /\ Len(o) >= 1 /\ o[1].c = c
  /\ \/ o[1].op = "SendFailed"
     \/ o[1].op = "JoinSendDone" /\ ~o[1].ok

\* C17: the failure of an action, join or leave send raises nothing, hands nothing to the
\* transport again, arms no timer and changes neither the participants, the connection
\* state, the color nor anything else a render depends on, so that no retry follows
\* from it.
C17_SendFailureSwallowed ==
  [][\A c \in Clients :
       SendFailure(out', c) =>
         /\ ~Threw(out')
         /\ \A i \in DOMAIN out' : out'[i].op \notin {"send", "sendBeacon", "setTimeout"}
         /\ net' = net
         /\ UNCHANGED <<collaborativeUsers, isConnected, userColor, shouldAnnounceJoin,
                         channel, announceTimeoutRef, rendered, props, chans>>]_vars

\* the join announcement of a connected session with a participant has just failed
C17_Witness ==
  /\ Len(out) >= 1 /\ out[1].op = "JoinSendDone" /\ ~out[1].ok
  /\ isConnected[out[1].c] /\ shouldAnnounceJoin[out[1].c]
  /\ collaborativeUsers[out[1].c] # << >>

\* C18: whenever the participant set of a mounted controller changes, onPresenceChange
\* is invoked in that step with the new set, so that the set delivered last equals the
\* current one, also after the reset of a teardown.
C18_PresenceChangeNotified ==
  [][\A c \in Clients :
       (mounted[c] /\ mounted'[c] /\ collaborativeUsers'[c] # collaborativeUsers[c]) =>
         \E i \in DOMAIN out' :
           /\ out'[i].op = "onPresenceChange"
           /\ out'[i].arg = collaborativeUsers'[c]]_vars

\* a user_leave of client b is in flight to client a
LeaveInFlight(b, a) ==
  \E m \in net :
    /\ m.event = EVENT_USER_LEAVE_TYPE /\ m.payload.userId = b
    /\ \E d \in m.to : d[1] = a

CursorEnvelopeOf(e, b) ==
  /\ DOMAIN e = {"type", "position", "userId", "userName", "userColor", "timestamp"}
  /\ e.type = "cursor_move" /\ e.position = [x |-> 120, y |-> 80]
  /\ e.userId = b /\ e.userName = UserName[b]
  /\ e.userColor \in Range(USER_COLORS)
  /\ e.timestamp \in 0..now

\* the onAction invocations among the calls of a step
OnActionCalls(o) == {i \in DOMAIN o : o[i].op = "onAction"}

\* C20: the envelope a connected client hands to the transport for
\* updateCursorPosition(x, y) carries the type cursor_move, the position, the client's
\* userId and userName, the colour it currently shows and the current time; every
\* mind_map_action in flight is such an envelope, addressed to other clients only; and each
\* delivery of it to another client invokes that client's onAction exactly once with
\* exactly that envelope, leaving the receiver's participant list alone.
C20_ActionReachesPeers ==
  /\ [][\A c \in Clients :
          (BroadcastStep(out') /\ out'[1].c = c /\ ~BroadcastDrops(c))
          => /\ Len(out') = 2 /\ out'[2].op = "send"
             /\ out'[2].event = EVENT_ACTION_TYPE
             /\ CursorEnvelopeOf(out'[2].payload, c)
             /\ out'[2].payload.userColor = rendered[c].userColor
             /\ out'[2].payload.timestamp = now
             /\ (Recipients(c, chans[c][out'[2].chan].topic) # {} /\ Cardinality(net) < MaxNet)
                  => \E m \in net' :
                       /\ m.event = EVENT_ACTION_TYPE /\ m.payload = out'[2].payload
                       /\ m.to = Recipients(c, chans[c][out'[2].chan].topic)]_vars
  /\ [](\A m \in net :
          m.event = EVENT_ACTION_TYPE
          => \E b \in Clients :
               /\ CursorEnvelopeOf(m.payload, b)
               /\ \A d \in m.to : d[1] # b /\ chans[d[1]][d[2]].topic = RoomName("c1"))
  /\ [][(LastReceive(out') /\ out'[1].event = EVENT_ACTION_TYPE
          /\ out'[1].payload.userId # out'[1].c)
         => /\ Cardinality(OnActionCalls(out')) = 1
            /\ \A i \in OnActionCalls(out') :
                 /\ out'[i].arg = out'[1].payload
                 /\ out'[i].cb = onActionRef[out'[1].c]
                 /\ \E m \in net : m.event = EVENT_ACTION_TYPE /\ m.payload = out'[i].arg
            /\ collaborativeUsers' = collaborativeUsers]_vars

\* u1's onAction has just been invoked with the cursor move u2 broadcast
C20_Witness ==
  /\ LastReceive(out) /\ out[1].event = EVENT_ACTION_TYPE
  /\ out[1].c = "u1"
  /\ CursorEnvelopeOf(out[1].payload, "u2")
  /\ \E i \in DOMAIN out : out[i].op = "onAction" /\ out[i].arg = out[1].payload

\* the access check of visitor u's request answers in this step (without rejecting)
GateAnswers(u) ==
  page[u].pc = "gate" /\ page'[u].pc # "gate" /\ page'[u].access # "error"

\* C21: when the access check answers, the owner of the chat is let in; a visitor who
\* is not the owner is let in only if the chat row the page read was collaborative and a
\* session was active when the check ran; and a session becomes active only in the
\* check of the owner's request.
C21_AccessControlGate ==
  [][/\ \A u \in Clients :
          GateAnswers(u)
          => /\ (u = db.user_id) => (page'[u].access = "granted")
             /\ (u # db.user_id /\ page'[u].access = "granted")
                  => (page[u].isCollaborative /\ db.session)
             /\ (u # db.user_id) => (db'.session = db.session)
     /\ (~db.session /\ db'.session) => GateAnswers(db.user_id)]_vars

\* the non-owner u2 has been let into the session the owner u1 opened
C21_Witness ==
  /\ page["u2"].access = "granted" /\ ~page["u2"].isOwner
  /\ page["u1"].access = "granted" /\ page["u1"].isOwner
  /\ db.session /\ db.participants = {"u1", "u2"}

\* C22: a request whose user is not authenticated, whose chat is missing or whose access
\* check reported failure has ended in a redirect, and a request that rendered the
\* collaborative chat component passed all three.
C22_DenialIsHardStop ==
  \A u \in Clients :
    LET r == page[u] IN
    /\ r.pc = "done" => r.outcome \in RedirectUrls \cup {RenderedChat}
    /\ r.pc # "done" => r.outcome = ""
    /\ r.outcome = RenderedChat
         => r.authed /\ r.chatFound /\ r.access = "granted" /\ r.hasData
    /\ (r.pc # "idle" /\ ~r.authed) => r.outcome = LoginUrl
    /\ (r.pc \notin {"idle", "chat"} /\ ~r.chatFound) => r.outcome \in RedirectUrls
    /\ r.access \in {"denied", "error"} => r.outcome \in RedirectUrls
    /\ r.pc \in {"session", "data"} => r.access = "granted"

\* the non-owner's request was refused by the access check and ended in a redirect
C22_Witness ==
  /\ page["u2"].access = "denied" /\ page["u2"].thrown = AccessDeniedUrl
  /\ page["u2"].pc = "done" /\ page["u2"].outcome \in RedirectUrls

\* the places in the palette whose color no participant of `users` has
FreePlaces(users) ==
  {i \in DOMAIN USER_COLORS : \A j \in DOMAIN users : users[j].color # USER_COLORS[i]}

\* C23: the color the subscribe callback assigns on SUBSCRIBED is the palette color at
\* the lowest place no participant of the registry holds; when every palette color is
\* held it is still a color of the palette; and the registry is as it was.
C23_FirstFreeColor ==
  [][\A c \in Clients :
       (StatusStep(out') /\ out'[1].c = c /\ out'[1].status = "SUBSCRIBED")
       => LET free == FreePlaces(collaborativeUsers[c]) IN
          /\ userColor'[c] \in Range(USER_COLORS)
          /\ free # {} => userColor'[c] = USER_COLORS[CHOOSE i \in free : \A j \in free : i <= j]
          /\ collaborativeUsers' = collaborativeUsers]_vars

\* with all eight palette colors held by participants, SUBSCRIBED has assigned a palette
\* color that is not the first of the palette
C23_Witness ==
  /\ StatusStep(out) /\ out[1].status = "SUBSCRIBED"
  /\ FreePlaces(collaborativeUsers["u1"]) = {}
  /\ userColor["u1"] \in Range(USER_COLORS) \ {USER_COLORS[1]}

\* with the first two palette colors held, SUBSCRIBED has assigned the third
C23_WitnessGap ==
  /\ StatusStep(out) /\ out[1].status = "SUBSCRIBED"
  /\ FreePlaces(collaborativeUsers["u1"]) = 3..8
  /\ userColor["u1"] = USER_COLORS[3]

\* the beacons the user agent accepted among the calls of a step
AcceptedBeacons(o) == {i \in DOMAIN o : o[i].op = "sendBeacon"}

\* C24: in a teardown that finds the session connected, a user_leave goes to
\* channel.send exactly when navigator.sendBeacon is missing or raised; that send is
\* made on the channel before it is removed; an accepted beacon is followed by no
\* channel send; so exactly one of the two paths carries the leave.
C24_FallbackOnlyWhenBeaconFails ==
  (TeardownStep(out) /\ out[1].beacon # "unused") =>
    /\ ChannelLeaves(out) # {} <=> out[1].beacon \in {"throws", "unavailable"}
    /\ AcceptedBeacons(out) # {} <=> out[1].beacon = "ok"
    /\ Cardinality(AcceptedBeacons(out)) + Cardinality(ChannelLeaves(out)) = 1
    /\ \A i \in ChannelLeaves(out) :
         /\ i < RemoveAt(out)
         /\ out[i].chan = out[RemoveAt(out)].chan
         /\ ~out[i].removed
         /\ out[i].payload.type = "user_leave" /\ out[i].payload.userId = out[1].c

\* sendBeacon raised in the teardown of a connected session and the leave went to the
\* channel before its removal
C24_Witness ==
  /\ TeardownStep(out) /\ out[1].beacon = "throws"
  /\ \E i \in DOMAIN out : out[i].op = "sendBeaconThrew"
  /\ \E i \in ChannelLeaves(out) : i < RemoveAt(out)

\* client c's session is torn down in this step: its hook unmounts, or a render with
\* another chatId commits, while a channel effect is live
Teardown(c) ==
  /\ Len(out') >= 1 /\ "c" \in DOMAIN out'[1] /\ out'[1].c = c
  /\ effChannel[c] # NullChannel
  /\ \/ out'[1].op = "Unmount"
     \/ out'[1].op = "Commit" /\ rendered[c].chatId # props[c].chatId

\* the channel of the session is removed and the state of lines 351-354 is reset
RemovedAndReset(c) ==
  /\ \E i \in DOMAIN out' : out'[i].op = "removeChannel" /\ out'[i].chan = effChannel[c]
  /\ chans'[c][effChannel[c]].removed
  /\ channel'[c] # effChannel[c] /\ effChannel'[c] # effChannel[c]
  /\ collaborativeUsers'[c] = << >>
  /\ ~isConnected'[c]
  /\ ~shouldAnnounceJoin'[c]

Registrations(o, k, event) ==
  {i \in DOMAIN o : o[i].op = "on" /\ o[i].chan = k /\ o[i].event = event}

\* C26: in the step that opens a channel, subscribe is called after the channel was
\* created and after a handler was registered on it for each of the three events; a
\* channel comes into being only in such a step; and a status callback or an inbound
\* envelope is processed only on a channel that existed before that step.
C26_HandlersBeforeSubscribe ==
  /\ [](\A i \in DOMAIN out :
          out[i].op = "subscribe"
          => /\ \E j \in 1..(i - 1) : out[j].op = "channel" /\ out[j].chan = out[i].chan
             /\ \A event \in Events :
                  \E j \in Registrations(out, out[i].chan, event) :
                    /\ j < i
                    /\ \E h \in 1..(j - 1) : out[h].op = "channel" /\ out[h].chan = out[i].chan)
  /\ [][\A c \in Clients :
          Len(chans'[c]) # Len(chans[c])
          => /\ Len(chans'[c]) = Len(chans[c]) + 1
             /\ \E i \in DOMAIN out' :
                  out'[i].op = "subscribe" /\ out'[i].c = c /\ out'[i].chan = Len(chans'[c])]_vars
  /\ [][/\ StatusStep(out') => out'[1].chan \in DOMAIN chans[out'[1].c]
        /\ LastReceive(out') =>
             /\ effChannel[out'[1].c] \in DOMAIN chans[out'[1].c]
             /\ chans' = chans]_vars

\* the channel opened by the mount has just reported its first status
C26_Witness ==
  /\ StatusStep(out) /\ out[1].status = "SUBSCRIBED" /\ out[1].chan = 1
  /\ Len(chans[out[1].c]) = 1 /\ chans[out[1].c][1].st = "joined"
  /\ ~rendered[out[1].c].isConnected

\* the calls of a step that open, subscribe or remove a channel
ChannelCalls(o) == {i \in DOMAIN o : o[i].op \in {"channel", "subscribe", "removeChannel"}}

\* the callbacks invoked among the calls of a step are the ones the refs of client c hold
DispatchedToRefs(o, c) ==
  \A i \in DOMAIN o :
    /\ o[i].op = "onAction" => o[i].cb = onActionRef[c]
    /\ o[i].op = "onPresenceChange" => o[i].cb = onPresenceChangeRef[c]

\* C27: the caller passing new onAction / onPresenceChange callbacks, and the commit that
\* installs them in the refs, make no channel, subscribe or removeChannel call and leave
\* channels, participants, color and connection state as they were; every callback
\* invoked for an inbound envelope is the one the last committed render was given, so
\* once the replacement is installed the replaced callback is not invoked again.
C27_CallbackReplacement ==
  /\ [][\A c \in Clients :
          /\ (Len(out') >= 1 /\ out'[1].op = "ReplaceCallbacks" /\ out'[1].c = c)
             => /\ chans' = chans /\ channel' = channel /\ effChannel' = effChannel
                /\ collaborativeUsers' = collaborativeUsers
                /\ userColor' = userColor /\ isConnected' = isConnected
          /\ (Len(out') >= 1 /\ out'[1].op = "Commit" /\ out'[1].c = c
              /\ rendered[c].onAction # props[c].onAction)
             => /\ ChannelCalls(out') = {}
                /\ chans' = chans /\ channel' = channel /\ effChannel' = effChannel
                /\ collaborativeUsers' = collaborativeUsers
                /\ userColor' = userColor /\ isConnected' = isConnected
                /\ onActionRef'[c] = props[c].onAction
                /\ onPresenceChangeRef'[c] = props[c].onPresenceChange
          /\ (LastReceive(out') /\ out'[1].c = c) => DispatchedToRefs(out', c)]_vars
  /\ [](\A c \in Clients :
          mounted[c] =>
            /\ onActionRef[c] = rendered[c].onAction
            /\ onPresenceChangeRef[c] = rendered[c].onPresenceChange
            /\ (LastReceive(out) /\ out[1].c = c) => DispatchedToRefs(out, c))

\* after the replacement was installed an inbound action went to the new onAction
C27_Witness ==
  /\ LastReceive(out) /\ out[1].event = EVENT_ACTION_TYPE
  /\ props[out[1].c].onAction = "f2"
  /\ \E i \in DOMAIN out : out[i].op = "onAction" /\ out[i].cb = "f2"
  /\ collaborativeUsers[out[1].c] # << >>

\* C28: the participant list of a client changes only when its user_join handler puts
\* the sender in (replacing an entry of the same id), when its user_leave handler takes
\* the sender out, or when its session is torn down (to the empty list); a received
\* mind_map_action, a status callback, a call of broadcastAction, the announcement timer
\* and the completion or failure of a send leave it as it was.
C28_ParticipantsChangedOnlyByRegistryOps ==
  [][\A c \in Clients :
       /\ collaborativeUsers'[c] # collaborativeUsers[c]
          => \/ /\ LastReceive(out') /\ out'[1].c = c /\ out'[1].event = EVENT_USER_JOIN_TYPE
                /\ Ids(collaborativeUsers'[c]) =
                     Ids(collaborativeUsers[c]) \cup {Field(out'[1].payload, "userId")}
             \/ /\ LastReceive(out') /\ out'[1].c = c /\ out'[1].event = EVENT_USER_LEAVE_TYPE
                /\ Ids(collaborativeUsers'[c]) =
                     Ids(collaborativeUsers[c]) \ {Field(out'[1].payload, "userId")}
             \/ Teardown(c) /\ collaborativeUsers'[c] = << >>
       /\ (/\ Len(out') >= 1 /\ "c" \in DOMAIN out'[1] /\ out'[1].c = c
           /\ \/ LastReceive(out') /\ out'[1].event = EVENT_ACTION_TYPE
              \/ out'[1].op \in {"StatusCallback", "BroadcastAction", "TimerFire",
                                 "JoinSendDone", "SendFailed"})
          => collaborativeUsers'[c] = collaborativeUsers[c]]_vars

\* with a participant in the list, a mind_map_action of that participant has just been
\* handed to onAction and the list still holds exactly that participant
C28_Witness ==
  /\ LastReceive(out) /\ out[1].event = EVENT_ACTION_TYPE
  /\ CallbackInvoked(out)
  /\ Ids(collaborativeUsers[out[1].c]) = {out[1].payload.userId}
  /\ Len(collaborativeUsers[out[1].c]) = 1

\* the current channel of client c has just reported SUBSCRIBED
JustSubscribed(c) ==
  /\ StatusStep(out) /\ out[1].c = c /\ out[1].status = "SUBSCRIBED"
  /\ out[1].chan = effChannel[c]
  /\ Connected(c)

\* the join announcement of client c has just been handed to its current channel
JoinSentNow(c) ==
  \E i \in DOMAIN out :
    /\ out[i].op = "send" /\ out[i].c = c /\ out[i].event = EVENT_USER_JOIN_TYPE
    /\ out[i].chan = effChannel[c] /\ ~out[i].removed

\* C29: once the current channel of a session has reported SUBSCRIBED, the session's
\* user_join is eventually handed to that channel, unless the session stops being
\* connected (a later status, a teardown) first.
C29_ConnectedSessionAnnounces ==
  JustSubscribed("u1") ~> (JoinSentNow("u1") \/ ~Connected("u1"))

\* client c's user_join has just been handed to its channel k
JoinSentOn(c, k) ==
  \E i \in DOMAIN out :
    /\ out[i].op = "send" /\ out[i].c = c /\ out[i].event = EVENT_USER_JOIN_TYPE
    /\ out[i].chan = k /\ ~out[i].removed

\* client c's channel k has just been removed in a teardown that attempted no user_leave
TornDownWithoutLeave(c, k) ==
  /\ TeardownStep(out) /\ out[1].c = c
  /\ out[RemoveAt(out)].chan = k
  /\ BeaconAttempts(out) = {} /\ ChannelLeaves(out) = {}

\* C30: once a session has handed its user_join to its channel, the teardown of that
\* session attempts a user_leave (through sendBeacon or the channel), whatever statuses
\* the transport reported in between.
C30_AnnouncedSessionLeaves ==
  \A k \in 1..MaxSessions :
    [](JoinSentOn("u1", k) => [](~TornDownWithoutLeave("u1", k)))

\* C31: no mind_map_action is handed to a channel that the teardown of its session has
\* already removed: broadcastAction called through a callback created before the
\* teardown sends nothing.
C31_NoActionOnRemovedChannel ==
  \A i \in DOMAIN out :
    (out[i].op = "send" /\ out[i].event = EVENT_ACTION_TYPE) => ~out[i].removed

\* C32: a session announces the local user at most once: after a user_join has been
\* handed to channel k and another step has followed, no user_join is handed to
\* channel k again.
C32_AtMostOneJoinPerSession ==
  \A k \in 1..MaxSessions :
    [](JoinSentOn("u1", k) =>
         [](~JoinSentOn("u1", k) => [](~JoinSentOn("u1", k))))

\* the userColor of the envelopes client c has just sent for its session on channel k:
\* what was handed to the channel while it was not removed, and the leave handed to
\* sendBeacon by the teardown that removes channel k
ColorsSentOn(c, k) ==
  {out[i].payload.userColor :
     i \in {j \in DOMAIN out : /\ out[j].op = "send" /\ out[j].c = c
                                /\ out[j].chan = k /\ ~out[j].removed}}
  \cup {out[i].action.userColor :
           i \in {j \in DOMAIN out : /\ out[j].op \in {"sendBeacon", "sendBeaconThrew"}
                                      /\ out[j].c = c /\ TeardownStep(out)
                                      /\ out[RemoveAt(out)].chan = k}}

\* C33: the color of a session is stable: once an envelope of the session on channel k
\* carried a userColor, every later envelope of that session carries the same one,
\* whatever statuses and remote joins or leaves arrive in between.
C33_SessionColorStable ==
  \A k \in 1..MaxSessions : \A color \in Range(USER_COLORS) :
    [](color \in ColorsSentOn("u1", k) => [](ColorsSentOn("u1", k) \subseteq {color}))

====
